---- MODULE Spec2Model ----
(***************************************************************************)
(* Model of node_server.js: an HTTP server that evaluates JavaScript       *)
(* snippets posted to /run and answers with a JSON document.               *)
(*                                                                         *)
(* Text is modelled as a sequence of words (TLA+ strings); "s contains t"  *)
(* is contiguous containment of word sequences.  A request body is a       *)
(* sequence of JSON lexemes that arrives in chunks.                        *)
(***************************************************************************)
EXTENDS Integers, Sequences, FiniteSets, TLC

\* ---------------------------------------------------------------- bounds
\* Largest number of lexemes one 'data' event delivers.
MaxChunk == 2

\* The connections the model follows concurrently.
Reqs == {"r1", "r2"}

\* ------------------------------------------------------------------ text
\* String.prototype.includes on word sequences.
Includes(s, t) ==
  \E i \in 0..(Len(s) - Len(t)) : SubSeq(s, i + 1, i + Len(t)) = t

\* Array.prototype.join(" ") over rendered arguments.
RECURSIVE Join(_)
Join(parts) ==
  IF parts = <<>> THEN <<>> ELSE Head(parts) \o Join(Tail(parts))

\* ------------------------------------------------------------- JS values
\* A JavaScript value: t is its kind, name the error class (errors only),
\* msg its text (message of an error, characters of a string, digits of a
\* number).
Val(t, name, msg) == [t |-> t, name |-> name, msg |-> msg]
Undefined == Val("undefined", "", <<>>)
Null == Val("null", "", <<>>)
Num(n) == Val("number", "", <<n>>)
Str(txt) == Val("string", "", txt)
Bool(b) == Val("boolean", "", <<b>>)
ErrorObj(name, msg) == Val("error", name, msg)
\* 1n: a BigInt, which JSON.stringify refuses.
BigInt1 == Val("bigint", "", <<"1">>)
\* () => 1: a function, which JSON.stringify leaves out of an object.
Func == Val("function", "", <<"()", "=>", "1">>)
\* Object.create(null): has no toString, so String() of it throws.
NullProto == Val("nullproto", "", <<>>)
\* ({ toJSON() { throw null } }): serialising it throws null.
ToJsonThrows == Val("tojsonthrows", "", <<>>)
\* {} and [] as produced by JSON.parse.
EmptyObject == Val("object", "", <<>>)
EmptyArray == Val("array", "", <<>>)

\* A completion: a normal value or a thrown one.
Normal(v) == [thrown |-> FALSE, v |-> v]
Throw(v) == [thrown |-> TRUE, v |-> v]

\* The TypeError V8 raises for a property read on null or undefined.
CannotRead(v, prop) ==
  ErrorObj("TypeError:",
           <<"Cannot", "read", "properties", "of", v.t, "(reading", prop>>)

\* String(v): the rendered text of a value, or the TypeError it throws.
JsString(v) ==
  CASE v.t = "undefined" -> Normal(<<"undefined">>)
    [] v.t = "null" -> Normal(<<"null">>)
    [] v.t = "error" -> Normal(<<v.name>> \o v.msg)
    [] v.t = "nullproto" ->
         Throw(ErrorObj("TypeError:",
                        <<"Cannot", "convert", "object", "to", "primitive", "value">>))
    [] v.t \in {"object", "tojsonthrows"} -> Normal(<<"[object", "Object]">>)
    [] v.t = "array" -> Normal(<<>>)
    [] OTHER -> Normal(v.msg)

\* v.stack: the property read throws on null and undefined, yields the
\* trace on an error object and undefined on everything else.
GetStack(v) ==
  CASE v.t \in {"undefined", "null"} -> Throw(CannotRead(v, "'stack')"))
    [] v.t = "error" ->
         Normal(Str(<<v.name>> \o v.msg \o <<"at", "user-code.js:1:1">>))
    [] OTHER -> Normal(Undefined)

\* String(error) + (error.stack ? ` | stack: ${error.stack}` : "").
FullError(error) ==
  LET s == JsString(error)
      k == GetStack(error)
  IN  IF s.thrown THEN s
      ELSE IF k.thrown THEN k
      ELSE IF k.v.t = "string"
             THEN Normal(s.v \o <<"|", "stack:">> \o k.v.msg)
             ELSE Normal(s.v)

\* ------------------------------------------------------------ JSON.parse
\* A JSON lexeme: q tells a quoted string literal from a bare lexeme.
Lex(s) == [q |-> FALSE, s |-> s]
Quoted(s) == [q |-> TRUE, s |-> s]

\* What JSON.parse returns: the top-level value v and, for an object with
\* one member, the member's key and value.
Parsed(v, key, prop) == [v |-> v, key |-> key, prop |-> prop]
SyntaxErr(msg) == ErrorObj("SyntaxError:", msg)

\* A JSON scalar lexeme's value, or the SyntaxError for a lexeme that is none.
Scalar(lex) ==
  IF lex.q THEN Normal(Str(<<lex.s>>))
  ELSE CASE lex.s = "null" -> Normal(Null)
         [] lex.s \in {"true", "false"} -> Normal(Bool(lex.s))
         [] lex.s \in {"0", "1", "2", "5", "7"} -> Normal(Num(lex.s))
         [] OTHER -> Throw(SyntaxErr(<<"Unexpected", "token", lex.s>>))

\* The lexeme at position i cannot continue a JSON text of the form
\* { string : scalar }.
BadAt(toks, i) ==
  \/ i > 5
  \/ i = 1 /\ toks[1] # Lex("{")
  \/ i = 2 /\ ~toks[2].q /\ toks[2] # Lex("}")
  \/ i = 3 /\ (toks[3] # Lex(":") \/ toks[2] = Lex("}"))
  \/ i = 4 /\ Scalar(toks[4]).thrown
  \/ i = 5 /\ toks[5] # Lex("}")

\* JSON.parse over lexemes: value ::= scalar | [] | {} | { string : scalar }.
\* A text that is none of these fails at its first bad lexeme, or at its
\* end when it is a proper prefix of a JSON text.
JSONParse(toks) ==
  CASE Len(toks) = 0 ->
         Throw(SyntaxErr(<<"Unexpected", "end", "of", "JSON", "input">>))
    [] Len(toks) = 1 /\ toks[1] \notin {Lex("{"), Lex("[")} ->
         LET s == Scalar(toks[1])
         IN  IF s.thrown THEN s ELSE Normal(Parsed(s.v, "", Undefined))
    [] toks = <<Lex("["), Lex("]")>> -> Normal(Parsed(EmptyArray, "", Undefined))
    [] toks = <<Lex("{"), Lex("}")>> -> Normal(Parsed(EmptyObject, "", Undefined))
    [] Len(toks) = 5 /\ \A i \in 1..5 : ~BadAt(toks, i) ->
         Normal(Parsed(EmptyObject, toks[2].s, Scalar(toks[4]).v))
    [] OTHER ->
         LET bads == {i \in 1..Len(toks) : BadAt(toks, i)}
             first == CHOOSE i \in bads : \A j \in bads : i <= j
         IN  IF bads = {}
               THEN Throw(SyntaxErr(<<"Unexpected", "end", "of", "JSON", "input">>))
               ELSE Throw(SyntaxErr(<<"Unexpected", "token", toks[first].s>>))

\* payload.code: the property read throws on null, finds the member named
\* "code" on an object and nothing on any other value.
GetCode(payload) ==
  CASE payload.v.t \in {"null", "undefined"} -> Throw(CannotRead(payload.v, "'code')"))
    [] payload.v.t = "object" /\ payload.key = "code" -> Normal(payload.prop)
    [] OTHER -> Normal(Undefined)

\* ------------------------------------------------------------- snippets
\* One console call of a snippet: the function called, its arguments, and
\* whether the call sits in a try block whose catch ignores the error.
Call(level, args, guarded) == [level |-> level, args |-> args, guarded |-> guarded]

\* What a source text means: whether it compiles, the console calls it
\* makes in order, and how its evaluation completes.
Prog(compiles, ops, completion) ==
  [compiles |-> compiles, ops |-> ops, completion |-> completion]

Boom == ErrorObj("Error:", <<"boom">>)

\* The source texts the model posts.
Sources ==
  { "1+1",
    "console.log('hi'); 5",
    "console.warn('w', 1); console.error('e'); 'done'",
    "void 0",
    "null",
    "throw new Error('boom')",
    "console.info('i'); throw new Error('boom')",
    "throw null",
    "throw undefined",
    "throw 'oops'",
    "throw Object.create(null)",
    "1 +",
    "1n",
    "(() => 1)",
    "({ toJSON() { throw null } })",
    "try { console.log(Object.create(null)) } catch (e) {} console.log('z'); 1",
    "console.log(Object.create(null))",
    "console.error('Error: boom'); throw new Error('boom')",
    "console.log('a'); 1 +" }

\* An evaluation that never completes, and one in which the process ends.
Never == [thrown |-> FALSE, v |-> Val("never", "", <<>>)]
Exits == [thrown |-> FALSE, v |-> Val("exit", "", <<>>)]
\* The value of the snippet's last require call, as a completion value.
LastRequired == Val("required", "", <<>>)

\* Source texts that load modules.
ModuleSources ==
  { "require('./m.js')",
    "require('./m.js'); require('./m.js')",
    "try { require('./m.js') } catch (e) {} 'kept'",
    "require('../m.js')",
    "require('os')" }

\* Source texts that touch their context's globals, loop, or end the process.
HostSources ==
  { "globalThis.n = (globalThis.n || 0) + 1",
    "typeof n",
    "console.log('spin'); while (true) {}",
    "require('process').exit(0)" }

\* new Script(src) and the behaviour of the compiled script.
Program(src) ==
  CASE src = "1+1" -> Prog(TRUE, <<>>, Normal(Num("2")))
    [] src = "console.log('hi'); 5" ->
         Prog(TRUE, <<Call("log", <<Str(<<"hi">>)>>, FALSE)>>, Normal(Num("5")))
    [] src = "console.warn('w', 1); console.error('e'); 'done'" ->
         Prog(TRUE,
              << Call("warn", <<Str(<<"w">>), Num("1")>>, FALSE),
                 Call("error", <<Str(<<"e">>)>>, FALSE) >>,
              Normal(Str(<<"done">>)))
    [] src = "void 0" -> Prog(TRUE, <<>>, Normal(Undefined))
    [] src = "null" -> Prog(TRUE, <<>>, Normal(Null))
    [] src = "throw new Error('boom')" -> Prog(TRUE, <<>>, Throw(Boom))
    [] src = "console.info('i'); throw new Error('boom')" ->
         Prog(TRUE, <<Call("info", <<Str(<<"i">>)>>, FALSE)>>, Throw(Boom))
    [] src = "console.error('Error: boom'); throw new Error('boom')" ->
         Prog(TRUE, <<Call("error", <<Str(<<"Error:", "boom">>)>>, FALSE)>>, Throw(Boom))
    [] src = "console.log('a'); 1 +" ->
         Prog(FALSE, <<Call("log", <<Str(<<"a">>)>>, FALSE)>>,
              Throw(SyntaxErr(<<"Unexpected", "end", "of", "input">>)))
    [] src = "throw null" -> Prog(TRUE, <<>>, Throw(Null))
    [] src = "throw undefined" -> Prog(TRUE, <<>>, Throw(Undefined))
    [] src = "throw 'oops'" -> Prog(TRUE, <<>>, Throw(Str(<<"oops">>)))
    [] src = "throw Object.create(null)" -> Prog(TRUE, <<>>, Throw(NullProto))
    [] src = "1n" -> Prog(TRUE, <<>>, Normal(BigInt1))
    [] src = "(() => 1)" -> Prog(TRUE, <<>>, Normal(Func))
    [] src = "({ toJSON() { throw null } })" -> Prog(TRUE, <<>>, Normal(ToJsonThrows))
    [] src = "try { console.log(Object.create(null)) } catch (e) {} console.log('z'); 1" ->
         Prog(TRUE,
              << Call("log", <<NullProto>>, TRUE),
                 Call("log", <<Str(<<"z">>)>>, FALSE) >>,
              Normal(Num("1")))
    [] src = "console.log(Object.create(null))" ->
         Prog(TRUE, <<Call("log", <<NullProto>>, FALSE)>>, Normal(Undefined))
    [] src \in {"require('./m.js')", "require('./m.js'); require('./m.js')",
                "require('../m.js')", "require('os')"} ->
         Prog(TRUE, <<>>, Normal(LastRequired))
    [] src = "try { require('./m.js') } catch (e) {} 'kept'" ->
         Prog(TRUE, <<>>, Normal(Str(<<"kept">>)))
    [] src = "globalThis.n = (globalThis.n || 0) + 1" -> Prog(TRUE, <<>>, Normal(Undefined))
    [] src = "typeof n" -> Prog(TRUE, <<>>, Normal(Undefined))
    [] src = "console.log('spin'); while (true) {}" ->
         Prog(TRUE, <<Call("log", <<Str(<<"spin">>)>>, FALSE)>>, Never)
    [] src = "require('process').exit(0)" -> Prog(TRUE, <<>>, Exits)
    [] OTHER -> Prog(FALSE, <<>>, Throw(SyntaxErr(<<"Unexpected", "end", "of", "input">>)))

\* One require call of a snippet: the specifier as path segments, and
\* whether the call sits in a try block whose catch ignores the error.
Req(id, guarded) == [id |-> id, guarded |-> guarded]

\* The require calls a snippet makes, in order, before anything else it does.
Requires(src) ==
  CASE src = "require('./m.js')" -> <<Req(<<".", "m.js">>, FALSE)>>
    [] src = "require('./m.js'); require('./m.js')" ->
         <<Req(<<".", "m.js">>, FALSE), Req(<<".", "m.js">>, FALSE)>>
    [] src = "try { require('./m.js') } catch (e) {} 'kept'" ->
         <<Req(<<".", "m.js">>, TRUE)>>
    [] src = "require('../m.js')" -> <<Req(<<"..", "m.js">>, FALSE)>>
    [] src = "require('os')" -> <<Req(<<"os">>, FALSE)>>
    [] src = "require('process').exit(0)" -> <<Req(<<"process">>, FALSE)>>
    [] OTHER -> <<>>

\* What a snippet does with the global n of its context: "incr" sets it to
\* (n || 0) + 1 and yields that, "typeof" yields typeof n, "none" nothing.
GlobalUse(src) ==
  CASE src = "globalThis.n = (globalThis.n || 0) + 1" -> "incr"
    [] src = "typeof n" -> "typeof"
    [] OTHER -> "none"

\* ------------------------------------------------------ output collector
\* args.map((a) => String(a)): the renderings, in argument order.
RenderArgs(args) == [i \in 1..Len(args) |-> JsString(args[i])]

\* record(level)(...args): renders the arguments, joins them with spaces
\* and appends one record; a rendering that throws appends nothing.
Record(level, args, logs) ==
  LET rs == RenderArgs(args)
      bad == {i \in 1..Len(args) : rs[i].thrown}
  IN  IF bad # {}
        THEN [logs |-> logs,
              completion |-> Throw(rs[CHOOSE i \in bad : \A j \in bad : i <= j].v)]
        ELSE [logs |-> Append(logs, [level |-> level,
                                     message |-> Join([i \in 1..Len(args) |-> rs[i].v])]),
              completion |-> Normal(Undefined)]

\* script.runInContext(context): the console calls in order, stopping at
\* the first one that throws outside a try block, then the completion.
RECURSIVE RunOps(_, _, _)
RunOps(ops, completion, logs) ==
  IF ops = <<>> THEN [logs |-> logs, completion |-> completion]
  ELSE LET c == Head(ops)
           r == Record(c.level, c.args, logs)
       IN  IF r.completion.thrown /\ ~c.guarded
             THEN r
             ELSE RunOps(Tail(ops), completion, r.logs)

RunInContext(prog, logs) == RunOps(prog.ops, prog.completion, logs)

\* -------------------------------------------------------------- response
\* A JSON document as the client reads it: the keys present and their values.
Doc(keys, ok, result, error, logs) ==
  [keys |-> keys, ok |-> ok, result |-> result, error |-> error, logs |-> logs]

\* JSON.stringify of one member value: the value as the document carries
\* it, "omit" when the member is left out, or what serialising it throws.
SerializeMember(v) ==
  CASE v.t = "bigint" ->
         Throw(ErrorObj("TypeError:",
                        <<"Do", "not", "know", "how", "to", "serialize", "a", "BigInt">>))
    [] v.t = "tojsonthrows" -> Throw(Null)
    [] v.t \in {"function", "undefined"} -> Normal(Val("omit", "", <<>>))
    [] v.t \in {"nullproto", "error"} -> Normal(EmptyObject)
    [] OTHER -> Normal(v)

\* JSON.stringify(doc): only the result member can fail or vanish.
JSONStringify(doc) ==
  IF "result" \notin doc.keys THEN Normal(doc)
  ELSE LET m == SerializeMember(doc.result)
       IN  IF m.thrown THEN m
           ELSE IF m.v.t = "omit"
                  THEN Normal([doc EXCEPT !.keys = @ \ {"result"}, !.result = Undefined])
                  ELSE Normal([doc EXCEPT !.result = m.v])

\* The state one handler run works on: the response object res, the
\* responses written to the socket, the request's log sequence, the
\* diagnostic lines written by logError, the handler's steps so far, the
\* contexts built and scripts run, and the exceptions that left the handler.
FreshRes == [headersSent |-> FALSE, statusCode |-> 0, finished |-> FALSE]

ErrHeadersSent ==
  ErrorObj("Error:",
           <<"Cannot", "write", "headers", "after", "they", "are", "sent", "to", "the", "client">>)

\* res.writeHead(status): throws once the headers are set.
WriteHead(h, status) ==
  IF h.res.headersSent
    THEN Throw(ErrHeadersSent)
    ELSE Normal([h EXCEPT !.res.headersSent = TRUE, !.res.statusCode = status,
                          !.trace = Append(@, "writeHead")])

\* res.end(text): completes the response; a finished response ignores it.
ResEnd(h, doc) ==
  IF h.res.finished THEN h
  ELSE [h EXCEPT !.res.finished = TRUE,
                 !.out = Append(@, [status |-> h.res.statusCode, body |-> doc]),
                 !.trace = Append(@, "end")]

LogError(h, line) == [h EXCEPT !.stderr = Append(@, line)]

\* log(...): console.log when verbose.
Log(h, line) == IF h.verbose THEN [h EXCEPT !.stdout = Append(@, line)] ELSE h

\* The words of a message as one line, each preceded by a space.
RECURSIVE Spaced(_)
Spaced(words) == IF words = <<>> THEN "" ELSE " " \o Head(words) \o Spaced(Tail(words))

\* Every level mirrored to console.log.
SinkOfStandard(level) == "stdout"

\* level === "error" || level === "warn" ? console.error : console.log.
SinkOf(level) == IF level \in {"error", "warn"} THEN "stderr" ELSE "stdout"

\* sink(`[${level}]`, msg).
Sink(h, rec) ==
  IF SinkOf(rec.level) = "stderr"
    THEN [h EXCEPT !.stderr = Append(@, "[" \o rec.level \o "]" \o Spaced(rec.message))]
    ELSE [h EXCEPT !.stdout = Append(@, "[" \o rec.level \o "]" \o Spaced(rec.message))]

\* if (verbose) sink(...), for the records the collector pushed, in order.
RECURSIVE Mirrored(_, _)
Mirrored(h, recs) ==
  IF ~h.verbose \/ recs = <<>> THEN h
  ELSE Mirrored(Sink(h, Head(recs)), Tail(recs))

\* An exception leaves the handler with no uncaughtException listener
\* installed: the process ends.
EscapeCrash(h, e) ==
  [h EXCEPT !.escaped = Append(@, e), !.exited = TRUE]

\* An exception leaves the handler: the process guard logs it.
Escape(h, e) == LogError([h EXCEPT !.escaped = Append(@, e)], "Uncaught exception:")

\* sendError without the headersSent test and without its try block, as a
\* catch block that writes the 500 directly.
SendErrorUnguarded(h, status, error) ==
  LET w == WriteHead(h, status)
  IN  IF w.thrown THEN Escape(h, w.v)
      ELSE ResEnd(w.v, Doc({"ok", "error", "logs"}, FALSE, Undefined,
                           JsString(error).v, <<>>))

\* sendError(status, error).
SendError(h, status, error) ==
  IF h.res.headersSent THEN h
  ELSE LET w == WriteHead(h, status)
           s == JsString(error)
       IN  IF w.thrown THEN LogError(h, "Failed to send error response:")
           ELSE IF s.thrown THEN LogError(w.v, "Failed to send error response:")
           ELSE ResEnd(w.v, Doc({"ok", "error", "logs"}, FALSE, Undefined, s.v, <<>>))

\* ------------------------------------------------------ module resolver
\* Paths are sequences of segments.  The directory of node_server.js and
\* the working directory of the process.
ServerDir == <<"srv">>
Cwd == <<"work">>
\* path.join(serverDir, "examples").
ExamplesPath == ServerDir \o <<"examples">>

\* path.resolve(base, id): "." stays, ".." goes up, a name goes down.
RECURSIVE Resolve(_, _)
Resolve(base, id) ==
  IF id = <<>> THEN base
  ELSE CASE Head(id) = "." -> Resolve(base, Tail(id))
         [] Head(id) = ".." ->
              Resolve(IF base = <<>> THEN base ELSE SubSeq(base, 1, Len(base) - 1), Tail(id))
         [] OTHER -> Resolve(Append(base, Head(id)), Tail(id))

\* The text of an absolute path and of a specifier.
RECURSIVE PathText(_)
PathText(path) == IF path = <<>> THEN "" ELSE "/" \o Head(path) \o PathText(Tail(path))
IdText(id) == Head(id) \o PathText(Tail(id))

\* id.startsWith("./") || id.startsWith("../").
IsRelative(id) == Head(id) \in {".", ".."}

\* The files the model keeps on disk, and what a file can hold: a module
\* exporting 1, a module exporting 2, a module that throws when loaded, or
\* a text that is no module.
ExamplesFile == Resolve(ExamplesPath, <<".", "m.js">>)
CwdFile == Resolve(Cwd, <<".", "m.js">>)
Files == {ExamplesFile, CwdFile}
Contents ==
  {"module.exports = 1", "module.exports = 2", "throw new Error('init')", "module.exports ="}

\* fs.existsSync(path).
ExistsSync(d, path) == path \in DOMAIN d /\ d[path] # "absent"

\* The deletion of every cache entry.
DeleteCacheAll(c, path) == <<>>

\* delete require.cache[realPath].
DeleteCache(c, path) == [q \in DOMAIN c \ {path} |-> c[q]]

\* require(realPath) of the host: the cached exports if the path is in
\* require.cache, else the file is executed and its exports are cached; a
\* file that throws leaves no cache entry.
HostRequireFile(h, path) ==
  IF path \in DOMAIN h.cache
    THEN [h |-> h, completion |-> Normal(h.cache[path])]
  ELSE IF h.disk[path] = "throw new Error('init')"
    THEN [h |-> h, completion |-> Throw(ErrorObj("Error:", <<"init">>))]
  ELSE IF h.disk[path] = "module.exports ="
    THEN [h |-> h, completion |-> Throw(SyntaxErr(<<"Unexpected", "end", "of", "input">>))]
  ELSE LET exports == IF h.disk[path] = "module.exports = 1" THEN Num("1") ELSE Num("2")
       IN  [h |-> [h EXCEPT !.cache = [q \in DOMAIN h.cache \cup {path} |->
                                         IF q = path THEN exports ELSE h.cache[q]]],
            completion |-> Normal(exports)]

\* The load r of the file at path, noted among the request's loads.
Noted(r, path) ==
  [h |-> [r.h EXCEPT !.loaded = Append(@, [path |-> path, completion |-> r.completion])],
   completion |-> r.completion]

\* The load without the deletion of the cache entry.
LoadFreshKeepCache(h, path) == Noted(HostRequireFile(h, path), path)

\* The load of a relative specifier found at path (fs.realpathSync is the
\* identity: the model has no symbolic links): the cache entry of the path
\* is deleted, then the host loads it.
LoadFresh(h, path) ==
  Noted(HostRequireFile([h EXCEPT !.cache = DeleteCache(@, path)], path), path)

\* require(id) of the host for a bare specifier: a built-in module object.
HostRequire(h, id) ==
  [h |-> h, completion |-> Normal(Val("hostmodule", "", <<IdText(id)>>))]

\* if (verbose) log(`require("${id}") resolved to ${realPath}`), reached
\* when require(realPath) returned.
Resolved(r, id, path) ==
  IF r.completion.thrown THEN r
  ELSE [h |-> Log(r.h, "require(\"" \o IdText(id) \o "\") resolved to " \o PathText(path)),
        completion |-> r.completion]

\* The module-not-found failure: the paths go to logError, the error
\* carries the specifier.
NotFound(h, id, resolvedPath, cwdPath) ==
  [h |-> LogError(h, "require failed for " \o IdText(id)
                       \o " resolved paths: " \o PathText(resolvedPath)
                       \o " " \o PathText(cwdPath)),
   completion |-> Throw(ErrorObj("Error:", <<"Cannot", "find", "module",
                                             "'" \o IdText(id) \o "'">>))]

\* The try block with the working directory tried before the examples
\* directory.
TryRequireCwdFirst(h, id, resolvedPath, cwdPath) ==
  IF ~IsRelative(id) THEN HostRequire(h, id)
  ELSE IF ExistsSync(h.disk, cwdPath) THEN Resolved(LoadFresh(h, cwdPath), id, cwdPath)
  ELSE IF ExistsSync(h.disk, resolvedPath)
    THEN Resolved(LoadFresh(h, resolvedPath), id, resolvedPath)
  ELSE NotFound(h, id, resolvedPath, cwdPath)

\* The try block of safeRequire: a relative specifier is looked up under
\* the examples directory, then under the working directory; any other
\* specifier goes to the host's require.
TryRequire(h, id, resolvedPath, cwdPath) ==
  IF ~IsRelative(id) THEN HostRequire(h, id)
  ELSE IF ExistsSync(h.disk, resolvedPath)
    THEN Resolved(LoadFresh(h, resolvedPath), id, resolvedPath)
  ELSE IF ExistsSync(h.disk, cwdPath) THEN Resolved(LoadFresh(h, cwdPath), id, cwdPath)
  ELSE NotFound(h, id, resolvedPath, cwdPath)

\* The catch block that logs and lets the call return undefined.
CatchRequireSwallow(r, id) ==
  IF r.completion.thrown
    THEN [h |-> LogError(r.h, "require failed for " \o IdText(id)),
          completion |-> Normal(Undefined)]
    ELSE r

\* The catch block of safeRequire: logs and rethrows.
CatchRequire(r, id) ==
  IF r.completion.thrown
    THEN [h |-> LogError(r.h, "require failed for " \o IdText(id)),
          completion |-> r.completion]
    ELSE r

\* safeRequire(id).
SafeRequire(h, id) ==
  CatchRequire(TryRequire(h, id, Resolve(ExamplesPath, id), Resolve(Cwd, id)), id)

\* The require calls of a snippet in order, stopping at the first one that
\* throws outside a try block; last is the value of the last call.
RECURSIVE RunRequires(_, _, _)
\* What follows the call with outcome r, the head of reqs.
AfterRequire(r, reqs, last) ==
  IF r.completion.thrown
    THEN IF Head(reqs).guarded THEN RunRequires(r.h, Tail(reqs), last) ELSE r
    ELSE RunRequires(r.h, Tail(reqs), r.completion.v)

RunRequires(h, reqs, last) ==
  IF reqs = <<>> THEN [h |-> h, completion |-> Normal(last)]
  ELSE AfterRequire(SafeRequire(h, Head(reqs).id), reqs, last)

\* ---------------------------------------------------- evaluation context
\* A context taken from a pool: the one in which n was counted furthest.
CreateContextPooled(h) ==
  CHOOSE c \in {h.world[r] : r \in DOMAIN h.world} :
    \A r \in DOMAIN h.world : c["n"] >= h.world[r]["n"]

\* createContext({console, require, module, exports}): a new global scope,
\* in which the global n is not defined (0 stands for undefined).
CreateContext(h) == [name \in {"n"} |-> 0]

\* The snippet's use of the global n of its context.
UseGlobal(ctx, use) ==
  CASE use = "incr" ->
         [ctx |-> [ctx EXCEPT !["n"] = @ + 1], v |-> Num(ToString(ctx["n"] + 1))]
    [] use = "typeof" ->
         [ctx |-> ctx, v |-> Str(<<IF ctx["n"] = 0 THEN "undefined" ELSE "number">>)]
    [] OTHER -> [ctx |-> ctx, v |-> Undefined]

\* The rest of the script after its require calls, whose outcome is reqs:
\* its global, its console calls and its completion.
AfterRequires(reqs, glob, run) ==
  IF reqs.completion.thrown THEN reqs
  ELSE [h |-> Mirrored([reqs.h EXCEPT !.globals = glob.ctx, !.logs = run.logs],
                       SubSeq(run.logs, Len(reqs.h.logs) + 1, Len(run.logs))),
        completion |->
          IF run.completion.thrown \/ run.completion.v.t \in {"never", "exit"}
            THEN run.completion
          ELSE IF run.completion.v = LastRequired THEN reqs.completion
          ELSE IF glob.v # Undefined THEN Normal(glob.v)
          ELSE run.completion]

ScriptBody(reqs, src) ==
  AfterRequires(reqs, UseGlobal(reqs.h.globals, GlobalUse(src)),
                RunInContext(Program(src), reqs.h.logs))

\* script.runInContext(context) with everything the snippet reaches: its
\* require calls, its global, its console calls and its completion.
RunScript(h, src) == ScriptBody(RunRequires(h, Requires(src), Undefined), src)

\* ------------------------------------------------------- request handler
\* The outer catch answering with a fixed text in place of the error's.
OuterCatchFixedText(h, error) ==
  LogError(SendError(h, 500, Str(<<"Internal", "server", "error">>)), "request failed")

\* catch (error) of the 'end' listener: renders the error, adds it to the
\* logs unless a record already contains its text, and sends a 500.
OuterCatch(h, error) ==
  LET f == FullError(error)
      errorMsg == JsString(error).v
      captured == \E i \in 1..Len(h.logs) :
                    h.logs[i].message # <<>> /\ Includes(h.logs[i].message, errorMsg)
      logs2 == IF h.logs = <<>> \/ ~captured
                 THEN Append(h.logs,
                             [level |-> "error",
                              message |-> <<"Server", "execution", "error:">> \o f.v])
                 ELSE h.logs
  IN  IF f.thrown THEN Escape(h, f.v)
      ELSE LogError(SendError([h EXCEPT !.logs = logs2], 500, Str(f.v)),
                    "request failed")

\* catch (scriptError) around runInContext: records the error in the logs
\* and throws it again.
InnerCatch(h, scriptError) ==
  LET f == FullError(scriptError)
  IN  IF f.thrown THEN OuterCatch(h, f.v)
      ELSE OuterCatch([h EXCEPT !.logs =
                         Append(@, [level |-> "error",
                                    message |-> <<"Script", "execution", "error:">> \o f.v])],
                      scriptError)

\* The missing-code response with status 200.
MissingCode200(h) ==
  LET w == WriteHead(h, 200)
  IN  IF w.thrown THEN OuterCatch(h, w.v)
      ELSE ResEnd(w.v, Doc({"ok", "error"}, FALSE, Undefined, <<"Missing", "code">>, <<>>))

\* The 400 sent when payload.code is not a string.
MissingCode(h) ==
  LET w == WriteHead(h, 400)
  IN  IF w.thrown THEN OuterCatch(h, w.v)
      ELSE Log(ResEnd(w.v, Doc({"ok", "error"}, FALSE, Undefined,
                               <<"Missing", "code">>, <<>>)),
               "request rejected: missing code")

\* The success response without the `?? null` on the result.
SuccessNoDefault(h, result) ==
  LET w == WriteHead(h, 200)
      text == JSONStringify(Doc({"ok", "result", "logs"}, TRUE, result, <<>>, h.logs))
  IN  IF w.thrown THEN OuterCatch(h, w.v)
      ELSE IF text.thrown THEN OuterCatch(w.v, text.v)
      ELSE ResEnd(w.v, text.v)

\* The 200 sent after the script returned: result ?? null, and the logs.
Success(h, result) ==
  LET w == WriteHead(h, 200)
      value == IF result.t \in {"undefined", "null"} THEN Null ELSE result
      text == JSONStringify(Doc({"ok", "result", "logs"}, TRUE, value, <<>>, h.logs))
  IN  IF w.thrown THEN OuterCatch(h, w.v)
      ELSE IF text.thrown THEN OuterCatch(w.v, text.v)
      ELSE Log(ResEnd(w.v, text.v), "request ok")

\* The script ran in the handler state h with outcome run.
Ran(run) == [run.h EXCEPT !.trace = Append(@, "run"), !.runs = @ + 1]

\* After runInContext: the inner catch for a thrown completion, no return
\* for a loop, the end of the process for an exit, else the 200 response.
AfterRun(h, completion) ==
  IF completion.thrown THEN InnerCatch(h, completion.v)
  ELSE IF completion.v.t = "never" THEN [h EXCEPT !.blocked = TRUE]
  ELSE IF completion.v.t = "exit" THEN [h EXCEPT !.exited = TRUE]
  ELSE Success(h, completion.v)

\* createContext and runInContext once a script compiled.
BuildAndRun(h, src) ==
  RunScript([h EXCEPT !.trace = Append(@, "context"), !.contexts = @ + 1,
                      !.globals = CreateContext(h)], src)

\* runInContext called again after a thrown completion.
Retry(run, src) == IF run.completion.thrown THEN RunScript(Ran(run), src) ELSE run

\* The run is counted and answered.
Responded(run) == AfterRun(Ran(run), run.completion)

\* The execution with a second runInContext after a thrown first one.
CompileAndRunTwice(h, prog, src) ==
  IF ~prog.compiles THEN OuterCatch(h, prog.completion.v)
  ELSE Responded(Retry(BuildAndRun(h, src), src))

\* The execution without compilation of the whole text first: statements
\* run until the one that cannot be parsed.
CompileAndRunLazy(h, prog, src) == Responded(BuildAndRun(h, src))

\* new Script, createContext, runInContext and the response, for the
\* compilation outcome prog of the text src.
CompileAndRun(h, prog, src) ==
  IF ~prog.compiles THEN OuterCatch(h, prog.completion.v)
  ELSE Responded(BuildAndRun(h, src))

\* From new Script to the response, for a payload whose code is the text src.
Execute(h, src) ==
  CompileAndRun([h EXCEPT !.trace = Append(@, "compile")], Program(src), src)

\* A collector over one log sequence for all requests.
MakeConsoleCollectorShared(h) ==
  LET RECURSIVE All(_)
      All(rs) == IF rs = {} THEN <<>>
                 ELSE LET r == CHOOSE x \in rs : TRUE
                      IN  h.collected[r] \o All(rs \ {r})
  IN  All(DOMAIN h.collected)

\* makeConsoleCollector(): a new, empty log sequence.
MakeConsoleCollector(h) == <<>>

\* The 'end' listener with JSON.parse(body).
OnEndNoDefault(h, text) ==
  LET input == text
      h0 == [h EXCEPT !.logs = MakeConsoleCollector(h), !.trace = Append(@, "parse"),
                      !.parsed = input]
      payload == JSONParse(input)
      code == GetCode(payload.v)
  IN  IF payload.thrown
        THEN OuterCatch(h0, ErrorObj("Error:", <<"Invalid", "JSON:">> \o payload.v.msg))
      ELSE IF code.thrown THEN OuterCatch(h0, code.v)
      ELSE IF code.v.t # "string" THEN MissingCode(h0)
      ELSE Execute(h0, code.v.msg[1])

\* req.on("end"): a fresh collector, JSON.parse(body || "{}"), the check of
\* payload.code, then compilation and execution.
OnEnd(h, text) ==
  LET input == IF text = <<>> THEN <<Lex("{"), Lex("}")>> ELSE text
      h0 == [h EXCEPT !.logs = MakeConsoleCollector(h), !.trace = Append(@, "parse"),
                      !.parsed = input]
      payload == JSONParse(input)
      code == GetCode(payload.v)
  IN  IF payload.thrown
        THEN OuterCatch(h0, ErrorObj("Error:", <<"Invalid", "JSON:">> \o payload.v.msg))
      ELSE IF code.thrown THEN OuterCatch(h0, code.v)
      ELSE IF code.v.t # "string" THEN MissingCode(h0)
      ELSE Execute(h0, code.v.msg[1])

\* The error a broken connection raises on the request stream.
Aborted == ErrorObj("Error:", <<"aborted">>)

\* req.on("error").
OnError(h, err) == SendError(LogError(h, "Request error:"), 500, err)

\* The routing without the health test.
RouteNoHealth(m, u) ==
  IF m # "POST" \/ u # "/run" THEN "notfound" ELSE "run"

\* The routing with && for || in the 404 test.
RouteAnd(m, u) ==
  IF m = "GET" /\ u = "/health" THEN "health"
  ELSE IF m # "POST" /\ u # "/run" THEN "notfound"
  ELSE "run"

\* The routing at the head of the handler.
Route(m, u) ==
  IF m = "GET" /\ u = "/health" THEN "health"
  ELSE IF m # "POST" \/ u # "/run" THEN "notfound"
  ELSE "run"

\* The handler up to the registration of the listeners; its catch sends a
\* 500 for anything thrown on the way.
OnRequest(h, m, u) ==
  LET w200 == WriteHead(h, 200)
      w404 == WriteHead(h, 404)
      fail(e) == SendError(LogError(h, "Unexpected server error:"), 500, e)
  IN  CASE Route(m, u) = "health" ->
             IF w200.thrown THEN fail(w200.v)
             ELSE Log(ResEnd(w200.v, Doc({"ok"}, TRUE, Undefined, <<>>, <<>>)),
                      "health check ok")
        [] Route(m, u) = "notfound" ->
             IF w404.thrown THEN fail(w404.v)
             ELSE ResEnd(w404.v, Doc({"ok", "error"}, FALSE, Undefined, <<"Not", "found">>, <<>>))
        [] OTHER -> [h EXCEPT !.trace = Append(@, "listen")]

\* ----------------------------------------------------------------- state
VARIABLES
  method,    \* req.method of each connection ("" before it arrives)
  url,       \* req.url
  stream,    \* "idle": not arrived; "closed": answered by the routing;
             \* "open": the 'data', 'error' and 'end' listeners are registered
  ended,     \* 'end' was emitted
  errored,   \* 'error' was emitted
  wire,      \* the lexemes of the body still to arrive
  body,      \* the handler's variable body
  res,       \* the response object: headersSent, statusCode, finished
  out,       \* the responses completed on the socket, in order
  logs,      \* the log sequence of the request's collector
  stderr,    \* the lines logError wrote for the request
  trace,     \* the steps the handler took, in order
  contexts,  \* evaluation contexts built for the request
  runs,      \* scripts run for the request
  escaped,   \* the exceptions that left a listener of the request
  posted,    \* the whole body the client sends
  parsed,    \* the text the 'end' listener gave to JSON.parse
  globals,   \* the global n of the request's evaluation context
  loaded,    \* the files safeRequire loaded for the request, with the outcome
  cache,     \* require.cache: resolved path -> exports
  disk,      \* the content of each file, or "absent"
  writes,    \* how many times a file was changed since the start
  blocked,   \* a snippet is running and will not return
  proc,      \* "listening", "closing" after SIGINT/SIGTERM, or "exited"
  verbose,   \* the verbosity switch read from the environment at startup
  stdout     \* the lines console.log wrote for the request

vars ==
  << method, url, stream, ended, errored, wire, body, res, out, logs, stderr,
     trace, contexts, runs, escaped, posted, parsed, globals, loaded, cache,
     disk, writes, blocked, proc, verbose, stdout >>

Methods == {"GET", "POST"}
Urls == {"/health", "/run", "/nope"}

\* {"code": <src>} as lexemes.
CodeBody(src) == <<Lex("{"), Quoted("code"), Lex(":"), Quoted(src), Lex("}")>>

\* The request bodies the model posts.
Bodies ==
  { <<>>,
    <<Lex("{"), Lex("}")>>,
    <<Lex("["), Lex("]")>>,
    <<Lex("null")>>,
    <<Lex("7")>>,
    <<Lex("true")>>,
    <<Quoted("1+1")>>,
    <<Lex("{"), Quoted("code"), Lex(":"), Lex("7"), Lex("}")>>,
    <<Lex("{"), Quoted("code"), Lex(":"), Lex("null"), Lex("}")>>,
    <<Lex("{"), Quoted("src"), Lex(":"), Quoted("1+1"), Lex("}")>>,
    <<Lex("not"), Lex("json")>>,
    <<Lex("{"), Quoted("code"), Lex(":")>> }
  \cup {CodeBody(src) : src \in Sources}

\* The handler state of connection r, and its write-back.
H(r) ==
  [res |-> res[r], out |-> out[r], logs |-> logs[r], stderr |-> stderr[r],
   trace |-> trace[r], contexts |-> contexts[r], runs |-> runs[r],
   escaped |-> escaped[r], parsed |-> parsed[r], globals |-> globals[r],
   loaded |-> loaded[r], cache |-> cache, disk |-> disk, world |-> globals,
   collected |-> logs, blocked |-> blocked, exited |-> FALSE,
   verbose |-> verbose, stdout |-> stdout[r]]

Commit(r, h) ==
  /\ res' = [res EXCEPT ![r] = h.res]
  /\ out' = [out EXCEPT ![r] = h.out]
  /\ logs' = [logs EXCEPT ![r] = h.logs]
  /\ stderr' = [stderr EXCEPT ![r] = h.stderr]
  /\ trace' = [trace EXCEPT ![r] = h.trace]
  /\ contexts' = [contexts EXCEPT ![r] = h.contexts]
  /\ runs' = [runs EXCEPT ![r] = h.runs]
  /\ escaped' = [escaped EXCEPT ![r] = h.escaped]
  /\ parsed' = [parsed EXCEPT ![r] = h.parsed]
  /\ globals' = [globals EXCEPT ![r] = h.globals]
  /\ loaded' = [loaded EXCEPT ![r] = h.loaded]
  /\ cache' = h.cache
  /\ stdout' = [stdout EXCEPT ![r] = h.stdout]
  /\ blocked' = h.blocked
  /\ proc' = IF h.exited THEN "exited" ELSE proc

\* No connection has arrived; the process listens; nothing is cached.
InitServer ==
  /\ method = [r \in Reqs |-> ""]
  /\ url = [r \in Reqs |-> ""]
  /\ stream = [r \in Reqs |-> "idle"]
  /\ ended = [r \in Reqs |-> FALSE]
  /\ errored = [r \in Reqs |-> FALSE]
  /\ wire = [r \in Reqs |-> <<>>]
  /\ body = [r \in Reqs |-> <<>>]
  /\ res = [r \in Reqs |-> FreshRes]
  /\ out = [r \in Reqs |-> <<>>]
  /\ logs = [r \in Reqs |-> <<>>]
  /\ stderr = [r \in Reqs |-> <<>>]
  /\ stdout = [r \in Reqs |-> <<>>]
  /\ trace = [r \in Reqs |-> <<>>]
  /\ contexts = [r \in Reqs |-> 0]
  /\ runs = [r \in Reqs |-> 0]
  /\ escaped = [r \in Reqs |-> <<>>]
  /\ posted = [r \in Reqs |-> <<>>]
  /\ parsed = [r \in Reqs |-> <<>>]
  /\ globals = [r \in Reqs |-> [name \in {"n"} |-> 0]]
  /\ loaded = [r \in Reqs |-> <<>>]
  /\ cache = <<>>
  /\ blocked = FALSE
  /\ proc = "listening"

Init ==
  InitServer /\ disk = [f \in Files |-> "absent"] /\ writes = 0 /\ verbose = FALSE

\* An event loop that runs callbacks during a running snippet.
ReadyDuringSnippet == proc # "exited"

\* The event loop is free to run a callback.
Ready == proc # "exited" /\ ~blocked

\* A request arrives and the handler runs up to its return.
Accept(r, bodies) ==
  /\ Ready /\ proc = "listening"
  /\ stream[r] = "idle"
  /\ \E m \in Methods, u \in Urls :
       /\ method' = [method EXCEPT ![r] = m]
       /\ url' = [url EXCEPT ![r] = u]
       /\ stream' = [stream EXCEPT ![r] = IF Route(m, u) = "run" THEN "open" ELSE "closed"]
       /\ \E b \in (IF Route(m, u) = "run" THEN bodies ELSE {<<>>}) :
            /\ wire' = [wire EXCEPT ![r] = b]
            /\ posted' = [posted EXCEPT ![r] = b]
       /\ Commit(r, OnRequest(H(r), m, u))
  /\ UNCHANGED <<ended, errored, body, disk, writes, verbose>>

Arrive(r) == Accept(r, Bodies)

\* The 'data' listener with = for +=.
ChunkOverwrite(r) ==
  \E k \in 0..MaxChunk :
    /\ k <= Len(wire[r])
    /\ body' = [body EXCEPT ![r] = SubSeq(wire[r], 1, k)]
    /\ wire' = [wire EXCEPT ![r] = SubSeq(@, k + 1, Len(@))]
    /\ UNCHANGED << method, url, stream, ended, errored, res, out, logs, stderr,
                    trace, contexts, runs, escaped, posted, parsed, globals, loaded,
                    cache, disk, writes, blocked, proc, verbose, stdout >>

\* req.on("data"): body += chunk.toString().
Chunk(r) ==
  \E k \in 0..MaxChunk :
    /\ k <= Len(wire[r])
    /\ body' = [body EXCEPT ![r] = @ \o SubSeq(wire[r], 1, k)]
    /\ wire' = [wire EXCEPT ![r] = SubSeq(@, k + 1, Len(@))]
    /\ UNCHANGED << method, url, stream, ended, errored, res, out, logs, stderr,
                    trace, contexts, runs, escaped, posted, parsed, globals, loaded,
                    cache, disk, writes, blocked, proc, verbose, stdout >>

\* The 'end' listener runs to its end.
Finish(r) ==
  /\ ended' = [ended EXCEPT ![r] = TRUE]
  /\ Commit(r, OnEnd(H(r), body[r]))
  /\ UNCHANGED <<method, url, stream, errored, wire, body, posted, disk, writes, verbose>>

\* The 'error' listener runs to its end.
Fail(r) ==
  /\ errored' = [errored EXCEPT ![r] = TRUE]
  /\ Commit(r, OnError(H(r), Aborted))
  /\ UNCHANGED <<method, url, stream, ended, wire, body, posted, disk, writes, verbose>>

\* The events of a request stream as Node emits them: chunks, then either
\* 'end' once the whole body has arrived or 'error', and nothing after.
Flowing(r) == stream[r] = "open" /\ ~ended[r] /\ ~errored[r]

Data(r) == Ready /\ Flowing(r) /\ Chunk(r)
End(r) == Ready /\ Flowing(r) /\ wire[r] = <<>> /\ Finish(r)
Error(r) == Ready /\ Flowing(r) /\ Fail(r)

Next == \E r \in Reqs : Arrive(r) \/ Data(r) \/ End(r) \/ Error(r)

Spec == Init /\ [][Next]_vars

\* The same listeners under every ordering of the events: 'error' at most
\* once and 'end' at most once, in either order, chunks before 'end'.
AnyData(r) == Ready /\ stream[r] = "open" /\ ~ended[r] /\ Chunk(r)
AnyEnd(r) ==
  Ready /\ stream[r] = "open" /\ ~ended[r] /\ (wire[r] = <<>> \/ errored[r]) /\ Finish(r)
AnyError(r) == Ready /\ stream[r] = "open" /\ ~errored[r] /\ Fail(r)

NextAnyOrder == \E r \in Reqs : Arrive(r) \/ AnyData(r) \/ AnyEnd(r) \/ AnyError(r)

SpecAnyOrder == Init /\ [][NextAnyOrder]_vars

\* ---- the server with modules on disk
\* How many times the files change while the server runs.
MaxWrites == 1

\* Bodies whose snippet loads a module.
ModuleBodies == { CodeBody(src) : src \in ModuleSources }

\* Either file may be there when the server starts.
InitModules ==
  /\ InitServer
  /\ disk \in [Files -> {"absent", "module.exports = 1"}]
  /\ writes = 0
  /\ verbose = FALSE

ArriveModules(r) == Accept(r, ModuleBodies)

\* Something outside the server creates, rewrites or removes a file.
WriteFile ==
  /\ writes < MaxWrites
  /\ \E f \in Files, c \in Contents \cup {"absent"} :
       /\ c # disk[f]
       /\ disk' = [disk EXCEPT ![f] = c]
  /\ writes' = writes + 1
  /\ UNCHANGED << method, url, stream, ended, errored, wire, body, res, out, logs,
                  stderr, trace, contexts, runs, escaped, posted, parsed, globals,
                  loaded, cache, blocked, proc, verbose, stdout >>

NextModules ==
  \/ \E r \in Reqs : ArriveModules(r) \/ Data(r) \/ End(r) \/ Error(r)
  \/ WriteFile

SpecModules == InitModules /\ [][NextModules]_vars

\* ---- the server with snippets that reach the host
\* Bodies whose snippet uses a global, loops or ends the process, next to
\* bodies that succeed, log, fail and are no JSON.
HostBodies ==
  { CodeBody(src) : src \in HostSources \cup
      { "1+1", "console.log('hi'); 5",
        "console.warn('w', 1); console.error('e'); 'done'",
        "({ toJSON() { throw null } })", "1 +" } }
  \cup { <<Lex("not"), Lex("json")>> }

ArriveHost(r) == Accept(r, HostBodies)

\* SIGINT or SIGTERM: stop() calls server.close(), which refuses new
\* connections; the handler runs only when the event loop is free.
Signal ==
  /\ Ready /\ proc = "listening"
  /\ proc' = "closing"
  /\ UNCHANGED << method, url, stream, ended, errored, wire, body, res, out, logs,
                  stderr, trace, contexts, runs, escaped, posted, parsed, globals,
                  loaded, cache, disk, writes, blocked, verbose, stdout >>

\* The callback of server.close(): every connection is over, process.exit(0).
Drain ==
  /\ Ready /\ proc = "closing"
  /\ \A r \in Reqs : stream[r] = "open" => (res[r].finished \/ errored[r])
  /\ proc' = "exited"
  /\ UNCHANGED << method, url, stream, ended, errored, wire, body, res, out, logs,
                  stderr, trace, contexts, runs, escaped, posted, parsed, globals,
                  loaded, cache, disk, writes, blocked, verbose, stdout >>

NextHost ==
  \/ \E r \in Reqs : ArriveHost(r) \/ Data(r) \/ End(r) \/ Error(r)
  \/ Signal
  \/ Drain

SpecHost == Init /\ [][NextHost]_vars

\* ---- the server started with either setting of the verbosity switch
\* Bodies that are rejected and bodies whose snippet logs at every level,
\* succeeds and fails.
VerboseBodies ==
  { <<>>, <<Lex("not"), Lex("json")>> }
  \cup { CodeBody(src) : src \in
           { "1+1", "console.log('hi'); 5",
             "console.warn('w', 1); console.error('e'); 'done'",
             "console.info('i'); throw new Error('boom')",
             "console.log(Object.create(null))" } }

InitVerbose ==
  /\ InitServer
  /\ disk = [f \in Files |-> "absent"]
  /\ writes = 0
  /\ verbose \in BOOLEAN

ArriveVerbose(r) == Accept(r, VerboseBodies)

NextVerbose == \E r \in Reqs : ArriveVerbose(r) \/ Data(r) \/ End(r) \/ Error(r)

SpecVerbose == InitVerbose /\ [][NextVerbose]_vars

\* ---------------------------------------------------------------- claims
\* The inputs as posted, read off the wire.
PostedCode(r) == \E src \in Sources : body[r] = CodeBody(src)
Source(r) == CHOOSE src \in Sources : body[r] = CodeBody(src)

\* The 'end' listener of a POST /run whose body is {"code": <source>} ran.
Evaluated(r) == stream[r] = "open" /\ ended[r] /\ PostedCode(r)

\* What evaluating the posted source does: its console records and completion.
Behaviour(r) == RunInContext(Program(Source(r)), <<>>)

\* Bodies that are no JSON text, and JSON texts without a string `code`.
InvalidJson ==
  { <<Lex("not"), Lex("json")>>, <<Lex("{"), Quoted("code"), Lex(":")>> }
JsonWithoutCode ==
  { <<Lex("{"), Lex("}")>>, <<Lex("["), Lex("]")>>, <<Lex("null")>>, <<Lex("7")>>,
    <<Lex("true")>>, <<Quoted("1+1")>>,
    <<Lex("{"), Quoted("code"), Lex(":"), Lex("7"), Lex("}")>>,
    <<Lex("{"), Quoted("code"), Lex(":"), Lex("null"), Lex("}")>>,
    <<Lex("{"), Quoted("src"), Lex(":"), Quoted("1+1"), Lex("}")>> }

\* C1: once the 'end' or 'error' listener of a request has run (every
\* snippet of the model terminates), the response is ended, also when the
\* error is raised after the 200 status line was written.
C1_ResponseCompleted ==
  \A r \in Reqs : (ended[r] \/ errored[r]) => res[r].finished

\* C2: under every ordering of 'data', 'error' and 'end', at most one
\* response is completed per request, and the refusal of a second status
\* line (ERR_HTTP_HEADERS_SENT) never leaves a listener as an exception.
C2_AtMostOneResponse ==
  \A r \in Reqs :
    /\ Len(out[r]) <= 1
    /\ \A i \in 1..Len(escaped[r]) : escaped[r][i] # ErrHeadersSent

\* C2 witness: 'end' after 'error' ran the snippet, tried to answer a
\* second time and was stopped inside the listener.
C2_Witness ==
  \E r \in Reqs :
    /\ errored[r] /\ ended[r] /\ runs[r] = 1
    /\ Len(out[r]) = 1 /\ out[r][1].status = 500
    /\ stderr[r] = <<"Request error:", "request failed">>
    /\ escaped[r] = <<>>

\* The three routing outcomes.
HealthOutcome(r) ==
  /\ stream[r] = "closed"
  /\ out[r] = <<[status |-> 200, body |-> Doc({"ok"}, TRUE, Undefined, <<>>, <<>>)]>>
NotFoundOutcome(r) ==
  /\ stream[r] = "closed"
  /\ out[r] = <<[status |-> 404,
                 body |-> Doc({"ok", "error"}, FALSE, Undefined, <<"Not", "found">>, <<>>)]>>
RunOutcome(r) == stream[r] = "open"

\* C3: GET /health takes the health outcome, POST /run proceeds to
\* evaluation, everything else takes the 404 outcome; a request takes
\* exactly one outcome, and the health and 404 outcomes build no context
\* and run no snippet.
C3_Routing ==
  \A r \in Reqs :
    stream[r] # "idle" =>
      /\ HealthOutcome(r) <=> (method[r] = "GET" /\ url[r] = "/health")
      /\ RunOutcome(r) <=> (method[r] = "POST" /\ url[r] = "/run")
      /\ NotFoundOutcome(r) <=>
           ~(method[r] = "GET" /\ url[r] = "/health") /\ ~(method[r] = "POST" /\ url[r] = "/run")
      /\ Cardinality({o \in {"health", "run", "notfound"} :
                        \/ o = "health" /\ HealthOutcome(r)
                        \/ o = "run" /\ RunOutcome(r)
                        \/ o = "notfound" /\ NotFoundOutcome(r)}) = 1
      /\ ~RunOutcome(r) => contexts[r] = 0 /\ runs[r] = 0 /\ trace[r] = <<"writeHead", "end">>

\* C3 witness: GET /run was answered 404 while another connection got the
\* health answer.
C3_Witness ==
  \E r, q \in Reqs :
    /\ method[r] = "GET" /\ url[r] = "/run" /\ NotFoundOutcome(r)
    /\ HealthOutcome(q)

\* C4: a body that is no JSON text is answered 400, ok=false, error
\* beginning "Invalid JSON:", with no stack trace and no server-fault line,
\* and no snippet is run.
C4_InvalidJson400 ==
  \A r \in Reqs :
    (stream[r] = "open" /\ ended[r] /\ body[r] \in InvalidJson) =>
      /\ Len(out[r]) = 1
      /\ out[r][1].status = 400
      /\ ~out[r][1].body.ok
      /\ SubSeq(out[r][1].body.error, 1, 2) = <<"Invalid", "JSON:">>
      /\ ~Includes(out[r][1].body.error, <<"stack:">>)
      /\ stderr[r] = <<>>
      /\ runs[r] = 0

\* C5: a JSON body without a string `code` is answered 400 "Missing code"
\* and nothing is compiled or run.
C5_MissingCode400 ==
  \A r \in Reqs :
    (stream[r] = "open" /\ ended[r] /\ body[r] \in JsonWithoutCode) =>
      /\ Len(out[r]) = 1
      /\ out[r][1].status = 400
      /\ ~out[r][1].body.ok
      /\ out[r][1].body.error = <<"Missing", "code">>
      /\ runs[r] = 0 /\ contexts[r] = 0

\* The JSON-serializable values of the model.
JsonKinds == {"number", "string", "boolean", "null", "undefined"}

\* C6: a snippet that compiles, makes no console call and returns a
\* JSON-serializable value v is answered 200 {ok: true, result: v, logs: []},
\* with result null when v is undefined or null.
C6_SuccessResponse ==
  \A r \in Reqs :
    ( /\ Evaluated(r)
      /\ Program(Source(r)).compiles
      /\ Program(Source(r)).ops = <<>>
      /\ ~Program(Source(r)).completion.thrown
      /\ Program(Source(r)).completion.v.t \in JsonKinds ) =>
      LET v == Program(Source(r)).completion.v
      IN  out[r] =
            <<[status |-> 200,
               body |-> Doc({"ok", "result", "logs"}, TRUE,
                            IF v.t \in {"undefined", "null"} THEN Null ELSE v,
                            <<>>, <<>>)]>>

\* C6 witness: a snippet without a value was answered with result null.
C6_Witness ==
  \E r \in Reqs :
    /\ Evaluated(r) /\ Source(r) = "void 0"
    /\ Len(out[r]) = 1 /\ out[r][1].body.result = Null
    /\ "result" \in out[r][1].body.keys

C8_FailureKeepsLogs ==
  \A r \in Reqs :
    ( /\ Evaluated(r)
      /\ Program(Source(r)).compiles
      /\ Behaviour(r).completion.thrown
      /\ Len(out[r]) = 1 ) =>
      LET before == Behaviour(r).logs
      IN  /\ "logs" \in out[r][1].body.keys
          /\ Len(out[r][1].body.logs) >= Len(before)
          /\ SubSeq(out[r][1].body.logs, 1, Len(before)) = before

\* C9: on success the logs of the response are exactly the console calls
\* the snippet made, in call order, each with the level called and the
\* arguments rendered and joined by spaces.
C9_LogsAreTheCalls ==
  \A r \in Reqs :
    ( /\ Evaluated(r)
      /\ Len(out[r]) = 1
      /\ out[r][1].body.ok ) =>
      LET calls == Program(Source(r)).ops
          sent == out[r][1].body.logs
      IN  /\ Len(sent) = Len(calls)
          /\ \A i \in 1..Len(calls) :
               /\ sent[i].level = calls[i].level
               /\ \A j \in 1..Len(calls[i].args) : ~JsString(calls[i].args[j]).thrown
               /\ sent[i].message =
                    Join([j \in 1..Len(calls[i].args) |-> JsString(calls[i].args[j]).v])

\* C10: every response to a POST /run has a boolean ok, a result and no
\* error when ok, an error and no result when not ok, and logs in both cases.
C10_ResultShape ==
  \A r \in Reqs :
    \A i \in 1..Len(out[r]) :
      (method[r] = "POST" /\ url[r] = "/run") =>
        LET doc == out[r][i].body
        IN  /\ "ok" \in doc.keys
            /\ doc.ok => "result" \in doc.keys /\ "error" \notin doc.keys
            /\ ~doc.ok => "error" \in doc.keys /\ "result" \notin doc.keys
            /\ "logs" \in doc.keys

\* Everything the server holds for connection q.
Conn(q) ==
  << method[q], url[q], stream[q], ended[q], errored[q], wire[q], body[q], res[q],
     out[q], logs[q], stderr[q], trace[q], contexts[q], runs[q], escaped[q],
     posted[q], parsed[q], globals[q], loaded[q], stdout[q] >>

\* C11: the step that handles a GET /health completes that request's
\* response as 200 {"ok": true}, whatever the other connections are doing,
\* and leaves every other connection as it was.
C11_HealthAlways ==
  [][\A r \in Reqs :
       (stream[r] = "idle" /\ stream'[r] # "idle"
          /\ method'[r] = "GET" /\ url'[r] = "/health") =>
         /\ out'[r] = <<[status |-> 200,
                         body |-> Doc({"ok"}, TRUE, Undefined, <<>>, <<>>)]>>
         /\ res'[r].finished
         /\ \A q \in Reqs \ {r} : Conn(q)' = Conn(q)]_vars

\* C11 witness: the health answer stands next to a request whose body has
\* arrived in part and whose response is pending.
C11_Witness ==
  \E r, q \in Reqs :
    /\ HealthOutcome(r)
    /\ Flowing(q) /\ body[q] # <<>> /\ wire[q] # <<>> /\ ~res[q].headersSent


\* Every source text of the model, and the requests whose body is
\* {"code": <source>} with a source that compiles.
Snippets == Sources \cup ModuleSources \cup HostSources
Runnable(r) ==
  \E src \in Snippets : posted[r] = CodeBody(src) /\ Program(src).compiles

\* C18: a request's snippet is executed at most once; it is executed once
\* exactly when the body ended, parsed to an object with a string code and
\* the code compiled, and a thrown execution is not repeated.
C18_AtMostOnce ==
  \A r \in Reqs :
    /\ runs[r] <= 1
    /\ runs[r] = 1 <=> (ended[r] /\ Runnable(r))
    /\ contexts[r] = runs[r]

\* C18 witness: one request's snippet threw and was answered 500 after a
\* single execution, another's did not compile and was never executed.
C18_Witness ==
  \E r, q \in Reqs :
    /\ ended[r] /\ runs[r] = 1 /\ Len(out[r]) = 1 /\ out[r][1].status = 500
    /\ ended[q] /\ runs[q] = 0 /\ Len(out[q]) = 1 /\ out[q][1].status = 500
    /\ \E src \in Sources : posted[q] = CodeBody(src) /\ ~Program(src).compiles

\* The steps of the 'end' listener, as recorded in the trace.
Processing == {"parse", "compile", "context", "run"}

Ends(r) == ~ended[r] /\ ended'[r]

\* The snippets that load one relative specifier, unguarded, and the
\* specifier they load.
RelativeLoads == {"require('./m.js')", "require('../m.js')"}
Specifier(src) == Requires(src)[1].id

\* The module-not-found message for a specifier.
NotFoundText(id) == <<"Cannot", "find", "module", "'" \o IdText(id) \o "'">>

\* The 500 response of r carries an error text that includes the words t.
FailedWith(o, t) ==
  /\ Len(o) = 1 /\ o[1].status = 500 /\ ~o[1].body.ok
  /\ Includes(o[1].body.error, t)

\* C12: when a snippet loads a relative specifier whose path exists
\* neither under the examples directory nor under the working directory,
\* the request fails with the module-not-found error and the error text of
\* the response names both absolute paths that were tried.
C12_NotFoundNamesPaths ==
  [][\A r \in Reqs : \A src \in RelativeLoads :
       ( /\ Ends(r) /\ posted[r] = CodeBody(src)
         /\ ~ExistsSync(disk, Resolve(ExamplesPath, Specifier(src)))
         /\ ~ExistsSync(disk, Resolve(Cwd, Specifier(src))) )
       => /\ FailedWith(out'[r], NotFoundText(Specifier(src)))
          /\ FailedWith(out'[r], <<PathText(Resolve(ExamplesPath, Specifier(src)))>>)
          /\ FailedWith(out'[r], <<PathText(Resolve(Cwd, Specifier(src)))>>)]_vars

\* The snippets all of whose loads are of ./m.js.
LoadsM == { "require('./m.js')", "require('./m.js'); require('./m.js')",
            "try { require('./m.js') } catch (e) {} 'kept'" }

\* Every load recorded in l is of the file at path, and there is one.
LoadedOnly(l, path) == l # <<>> /\ \A i \in 1..Len(l) : l[i].path = path

\* C13: a relative specifier is loaded from the examples directory whenever
\* its path there exists, also when the working directory has a file of the
\* same name; from the working directory only when the examples path does
\* not exist; and the resolver fails, with module-not-found, exactly when
\* neither path exists.
C13_ResolutionOrder ==
  [][\A r \in Reqs : \A src \in LoadsM :
       (Ends(r) /\ posted[r] = CodeBody(src)) =>
         LET inExamples == ExistsSync(disk, ExamplesFile)
             inCwd == ExistsSync(disk, CwdFile)
             line == "require failed for ./m.js resolved paths: "
                       \o PathText(ExamplesFile) \o " " \o PathText(CwdFile)
             notFound == \E i \in 1..Len(stderr'[r]) : stderr'[r][i] = line
         IN  /\ inExamples => LoadedOnly(loaded'[r], ExamplesFile)
             /\ (~inExamples /\ inCwd) => LoadedOnly(loaded'[r], CwdFile)
             /\ (~inExamples /\ ~inCwd) => loaded'[r] = <<>>
             /\ notFound <=> (~inExamples /\ ~inCwd)
             /\ src = "require('./m.js')" =>
                  (FailedWith(out'[r], NotFoundText(<<".", "m.js">>))
                     <=> (~inExamples /\ ~inCwd))]_vars

\* C13 witness: with the file present in both directories since the start,
\* a request loaded the one under the examples directory and was answered
\* with its exports.
C13_Witness ==
  \E r \in Reqs :
    /\ writes = 0 /\ ExistsSync(disk, ExamplesFile) /\ ExistsSync(disk, CwdFile)
    /\ posted[r] = CodeBody("require('./m.js')") /\ ended[r]
    /\ loaded[r] = <<[path |-> ExamplesFile, completion |-> Normal(Num("1"))]>>
    /\ Len(out[r]) = 1 /\ out[r][1].status = 200 /\ out[r][1].body.result = Num("1")

\* What loading a file of the given content yields.
Fresh(content) ==
  CASE content = "module.exports = 1" -> Normal(Num("1"))
    [] content = "module.exports = 2" -> Normal(Num("2"))
    [] content = "module.exports =" ->
         Throw(ErrorObj("SyntaxError:", <<"Unexpected", "end", "of", "input">>))
    [] OTHER -> Throw(ErrorObj("Error:", <<"init">>))

\* C14: every load of a relative specifier yields what the content on disk
\* at the time of the load yields, whatever earlier loads of the same path
\* put in the cache and however the file changed since; a snippet answered
\* with the loaded module is answered with the exports of the current content.
C14_LoadsAreFresh ==
  [][\A r \in Reqs :
       /\ \A i \in (Len(loaded[r]) + 1)..Len(loaded'[r]) :
            loaded'[r][i].completion = Fresh(disk[loaded'[r][i].path])
       /\ (Ends(r) /\ posted[r] = CodeBody("require('./m.js')")
              /\ Len(out'[r]) = 1 /\ out'[r][1].status = 200) =>
            Normal(out'[r][1].body.result)
              = Fresh(disk[loaded'[r][1].path])]_vars

\* C14 witness: two requests loaded the same path, the file was rewritten
\* in between, and each got the exports of the content of its time.
C14_Witness ==
  \E r, q \in Reqs :
    /\ writes = 1
    /\ loaded[r] # <<>> /\ loaded[q] # <<>>
    /\ loaded[r][1].path = loaded[q][1].path
    /\ loaded[r][1].completion = Normal(Num("1"))
    /\ loaded[q][1].completion = Normal(Num("2"))
    /\ loaded[q][1].path \in DOMAIN cache


\* The snippets that do not return to the handler: the loop and the exit.
Loops(src) == Program(src).completion = Never
Quits(src) == Program(src).completion = Exits

\* C15 as stated: whatever the requests, a listening server keeps listening
\* and serving; only a signal takes it out of that state.
C15_OnlySignalsStop ==
  [][proc = "listening" =>
       \/ proc' = "listening" /\ ~blocked'
       \/ proc' = "closing" /\ ~blocked']_vars

\* C15: a listening server keeps listening and serving after every step,
\* whether the request failed in parsing, compilation, execution or while
\* the response was sent and whether an exception left the listener, and
\* every idle connection can be accepted; it stops listening only on a
\* signal, or when a snippet itself ends the process through a host module
\* of a bare specifier, and stops serving when a snippet never returns.
C15_StaysListening ==
  [][proc = "listening" =>
       /\ \A r \in Reqs : (~blocked /\ stream[r] = "idle") => ENABLED ArriveHost(r)
       /\ \/ proc' = "listening" /\ ~blocked'
          \/ proc' = "closing" /\ ~blocked'
          \/ \E r \in Reqs : \E src \in HostSources :
               /\ Ends(r) /\ posted[r] = CodeBody(src)
               /\ \/ Loops(src) /\ blocked' /\ proc' = "listening"
                  \/ Quits(src) /\ proc' = "exited"]_vars

\* C15 witness: an exception left one request's listener and was logged by
\* the process guard, another request failed to compile, and the server
\* listens and is free.
C15_Witness ==
  \E r, q \in Reqs :
    /\ proc = "listening" /\ ~blocked
    /\ escaped[r] # <<>> /\ ended[r]
    /\ \E i \in 1..Len(stderr[r]) : stderr[r][i] = "Uncaught exception:"
    /\ posted[q] = CodeBody("1 +") /\ ended[q]
    /\ Len(out[q]) = 1 /\ out[q][1].status = 500

\* The value of a snippet that depends on nothing but its own text and a
\* new context.
Expected(src) ==
  CASE src = "1+1" -> Num("2")
    [] src = "typeof n" -> Str(<<"undefined">>)
    [] src = "globalThis.n = (globalThis.n || 0) + 1" -> Num("1")

\* The 200 response with the given result and no logs.
Yields(o, v) ==
  /\ Len(o) = 1 /\ o[1].status = 200 /\ o[1].body.ok
  /\ o[1].body.result = v

\* C16: two requests running the same snippet that has no effect outside
\* its own context are answered with the same result, and that result is
\* the one the snippet has in a new context whatever the other request ran
\* before.
C16_SameResult ==
  \A src \in {"1+1", "typeof n", "globalThis.n = (globalThis.n || 0) + 1"} :
    /\ \A r, q \in Reqs :
         (ended[r] /\ ended[q] /\ posted[r] = CodeBody(src) /\ posted[q] = CodeBody(src))
           => out[r] = out[q]
    /\ \A r \in Reqs :
         (ended[r] /\ posted[r] = CodeBody(src)) => Yields(out[r], Expected(src))

\* C16 witness: both requests ran the counting snippet and both were
\* answered 1.
C16_Witness ==
  \E r, q \in Reqs :
    /\ r # q
    /\ posted[r] = CodeBody("globalThis.n = (globalThis.n || 0) + 1")
    /\ posted[q] = posted[r]
    /\ Yields(out[r], Num("1")) /\ Yields(out[q], Num("1"))

\* The records a snippet's own console calls produce, and the records the
\* handler adds for a failure.
Emitted(src) == RunInContext(Program(src), <<>>).logs
HandlerRecord(rec) ==
  /\ rec.level = "error"
  /\ \/ Includes(rec.message, <<"Script", "execution", "error:">>)
     \/ Includes(rec.message, <<"Server", "execution", "error:">>)

\* C17: whatever the interleaving, a request's log sequence holds the
\* records of its own snippet's calls, in order, followed at most by the
\* handler's failure records; a success response carries exactly the own
\* records; each request builds at most one context and runs at most one
\* script in it; and n, set by a counting snippet, is 1 in that request's
\* context and undefined to a snippet of the other request.
C17_NothingShared ==
  \A r \in Reqs : \A src \in Snippets :
    (ended[r] /\ posted[r] = CodeBody(src)) =>
      /\ Len(logs[r]) >= Len(Emitted(src))
      /\ SubSeq(logs[r], 1, Len(Emitted(src))) = Emitted(src)
      /\ \A i \in (Len(Emitted(src)) + 1)..Len(logs[r]) : HandlerRecord(logs[r][i])
      /\ (Len(out[r]) = 1 /\ out[r][1].status = 200) => out[r][1].body.logs = Emitted(src)
      /\ contexts[r] <= 1 /\ runs[r] <= contexts[r]
      /\ globals[r]["n"] = (IF GlobalUse(src) = "incr" THEN 1 ELSE 0)
      /\ src = "typeof n" => Yields(out[r], Str(<<"undefined">>))

\* C17 witness: two requests whose snippets log different records were
\* both answered, each with its own records only.
C17_Witness ==
  \E r, q \in Reqs :
    /\ posted[r] = CodeBody("console.log('hi'); 5")
    /\ posted[q] = CodeBody("console.warn('w', 1); console.error('e'); 'done'")
    /\ Len(out[r]) = 1 /\ Len(out[r][1].body.logs) = 1
    /\ Len(out[q]) = 1 /\ Len(out[q][1].body.logs) = 2

\* C20: the 'end' listener of a request is one step in which no other
\* connection changes, and after which nothing of that request happens any
\* more; a snippet that loops leaves its request unanswered and the process
\* blocked; and no step at all starts in a blocked process: no chunk, no
\* execution, no response, no arrival of a request (GET /health included).
C20_EndToResponseAtomic ==
  [][ /\ ~blocked
      /\ \A r \in Reqs :
           /\ Ends(r) => \A q \in Reqs \ {r} : Conn(q)' = Conn(q)
           /\ ended[r] => Conn(r)' = Conn(r)
           /\ (Ends(r) /\ \E src \in HostSources : Loops(src) /\ posted[r] = CodeBody(src))
                => (blocked' /\ out'[r] = <<>> /\ ~res'[r].headersSent) ]_vars

\* C20 witness: one request's snippet loops; the other request has its
\* whole body received and is unanswered.
C20_Witness ==
  \E r, q \in Reqs :
    /\ blocked /\ ended[r] /\ runs[r] = 1 /\ out[r] = <<>>
    /\ stream[q] = "open" /\ ~ended[q] /\ wire[q] = <<>> /\ body[q] # <<>>
    /\ out[q] = <<>>


\* The phase a step of the handler belongs to: Received 1, Parsing 2,
\* BuildingContext 3, Executing 4, Responding 5, Done 6.
Phase(step) ==
  CASE step = "listen" -> 1
    [] step = "parse" -> 2
    [] step = "context" -> 3
    [] step \in {"compile", "run"} -> 4
    [] step = "writeHead" -> 5
    [] step = "end" -> 6

\* C21: the steps of a POST /run request go through the phases Received,
\* Parsing, BuildingContext, Executing, Responding, Done in that order:
\* never backwards, forward by one phase at a time or straight to
\* Responding; nothing follows Done; the context is built before the
\* source is compiled.
C21_PhaseOrder ==
  \A r \in Reqs :
    (method[r] = "POST" /\ url[r] = "/run") =>
      \A i \in 1..Len(trace[r]) : \A j \in 1..Len(trace[r]) :
        /\ i < j => Phase(trace[r][i]) <= Phase(trace[r][j])
        /\ j = i + 1 =>
             \/ Phase(trace[r][j]) <= Phase(trace[r][i]) + 1
             \/ Phase(trace[r][j]) = 5
        /\ (trace[r][i] = "compile" /\ trace[r][j] = "context") => j < i


\* The error with which the posted snippet fails: its compilation error, or
\* what its evaluation throws.
Fails(r) ==
  Evaluated(r) /\ (~Program(Source(r)).compiles \/ Behaviour(r).completion.thrown)
Failure(r) ==
  IF ~Program(Source(r)).compiles THEN Program(Source(r)).completion.v
  ELSE Behaviour(r).completion.v

\* The records of a log sequence whose message contains the text.
Containing(l, text) == {i \in 1..Len(l) : Includes(l[i].message, text)}

\* C22: after a snippet failed in compilation or evaluation with an error
\* that can be rendered, the request's log sequence holds exactly one
\* record containing the rendered error text, and that record has level
\* error: the error is recorded, and it is not recorded again next to a
\* record that already contains its text.
C22_ErrorRecordedOnce ==
  \A r \in Reqs :
    (Fails(r) /\ ~FullError(Failure(r)).thrown) =>
      LET hits == Containing(logs[r], JsString(Failure(r)).v)
      IN  /\ Cardinality(hits) = 1
          /\ \A i \in hits : logs[r][i].level = "error"

\* C23: a snippet whose source does not compile is answered 500 with
\* ok=false, no context is built and nothing of it is evaluated, and the
\* request's log sequence holds the handler's failure record only, none
\* from the console calls in the source.
C23_CompileFailure ==
  \A r \in Reqs :
    (Evaluated(r) /\ ~Program(Source(r)).compiles) =>
      /\ Len(out[r]) = 1 /\ out[r][1].status = 500 /\ ~out[r][1].body.ok
      /\ Includes(out[r][1].body.error, <<"SyntaxError:">>)
      /\ runs[r] = 0 /\ contexts[r] = 0
      /\ Len(logs[r]) = 1 /\ HandlerRecord(logs[r][1])

\* C23 witness: a source with a console call before the text that cannot
\* be parsed was answered 500.
C23_Witness ==
  \E r \in Reqs :
    /\ ended[r] /\ posted[r] = CodeBody("console.log('a'); 1 +")
    /\ Len(out[r]) = 1 /\ out[r][1].status = 500
    /\ logs[r] # <<>>


\* What a load of ./m.js yields on the disk d: module-not-found when
\* neither file exists, else what the file that is found yields.
LoadOutcome(d) ==
  IF ExistsSync(d, ExamplesFile) THEN Fresh(d[ExamplesFile])
  ELSE IF ExistsSync(d, CwdFile) THEN Fresh(d[CwdFile])
  ELSE Throw(ErrorObj("Error:", NotFoundText(<<".", "m.js">>)))

\* C24: when the load of a module fails (no file, a text that is no
\* module, a throw at the module's top level), the snippet that does not
\* catch the failure is answered 500 with exactly the text and stack of
\* that error, never 200; the failure is logged by the resolver; and a
\* snippet that catches it goes on and is answered 200.
C24_LoadFailureRethrown ==
  [][\A r \in Reqs :
       /\ (Ends(r) /\ posted[r] = CodeBody("require('../m.js')")) =>
            /\ Len(out'[r]) = 1 /\ out'[r][1].status = 500
            /\ out'[r][1].body.error
                 = FullError(ErrorObj("Error:", NotFoundText(<<"..", "m.js">>))).v
       /\ (Ends(r) /\ LoadOutcome(disk).thrown) =>
         /\ posted[r] = CodeBody("require('./m.js')") =>
              /\ Len(out'[r]) = 1 /\ out'[r][1].status = 500
              /\ out'[r][1].body.error = FullError(LoadOutcome(disk).v).v
              /\ \E i \in 1..Len(stderr'[r]) : stderr'[r][i] = "require failed for ./m.js"
         /\ posted[r] = CodeBody("try { require('./m.js') } catch (e) {} 'kept'") =>
              /\ Yields(out'[r], Str(<<"kept">>))
              /\ \E i \in 1..Len(stderr'[r]) : stderr'[r][i] = "require failed for ./m.js"]_vars

\* C24 witness: one request was answered 500 with the error of a file
\* that is no module or that throws at its top level, the other with
\* module-not-found.
C24_Witness ==
  \E r, q \in Reqs :
    /\ posted[r] = CodeBody("require('./m.js')") /\ loaded[r] # <<>>
    /\ \/ FailedWith(out[r], <<"SyntaxError:", "Unexpected", "end", "of", "input">>)
       \/ FailedWith(out[r], <<"Error:", "init">>)
    /\ posted[q] = CodeBody("require('../m.js')") /\ loaded[q] = <<>>
    /\ FailedWith(out[q], NotFoundText(<<"..", "m.js">>))


\* The paths loaded for r in this step.
LoadedNow(r) ==
  { loaded'[r][i].path : i \in (Len(loaded[r]) + 1)..Len(loaded'[r]) }

\* C25: a snippet requiring the bare specifier os gets the host's module of
\* that name; nothing is resolved against the two directories, no file is
\* looked up or loaded, nothing is logged as failed and the module cache
\* stays as it is.  In every step, a cache entry of a path that is not
\* loaded in the step stays in the cache with the same exports.
C25_OnlyOwnCacheEntry ==
  [][\A r \in Reqs :
       /\ (Ends(r) /\ posted[r] = CodeBody("require('os')")) =>
            /\ Yields(out'[r], Val("hostmodule", "", <<"os">>))
            /\ loaded'[r] = <<>> /\ cache' = cache
            /\ stderr'[r] = stderr[r]
       /\ Ends(r) =>
            \A path \in DOMAIN cache \ LoadedNow(r) :
              path \in DOMAIN cache' /\ cache'[path] = cache[path]]_vars

\* C25 witness: the module cache holds the examples file loaded by one
\* request and the working-directory file loaded by the other.
C25_Witness ==
  \E r, q \in Reqs :
    /\ LoadedOnly(loaded[r], ExamplesFile) /\ LoadedOnly(loaded[q], CwdFile)
    /\ DOMAIN cache = {ExamplesFile, CwdFile}


\* C26: every response sent has status 200, 400, 404 or 500, and ok is
\* true in it exactly when the status is 200.
C26_OkIffStatus200 ==
  \A r \in Reqs : \A i \in 1..Len(out[r]) :
    /\ out[r][i].status \in {200, 400, 404, 500}
    /\ "ok" \in out[r][i].body.keys
    /\ out[r][i].body.ok <=> out[r][i].status = 200

\* C26 witness: one request was answered 200 with ok=true, the other 400
\* with ok=false.
C26_Witness ==
  \E r, q \in Reqs :
    /\ Len(out[r]) = 1 /\ out[r][1].status = 200 /\ out[r][1].body.ok
    /\ Len(out[q]) = 1 /\ out[q][1].status = 400 /\ ~out[q][1].body.ok

\* The 400 response with the error Missing code.
MissingCodeOutcome(o) ==
  o = <<[status |-> 400,
         body |-> Doc({"ok", "error"}, FALSE, Undefined, <<"Missing", "code">>, <<>>)]>>

\* C27: a POST /run whose body is empty when it ends, whether no chunk or
\* only empty chunks arrived, is parsed as {} and answered 400 Missing
\* code; nothing is compiled or run.
C27_EmptyBodyMissingCode ==
  \A r \in Reqs :
    (ended[r] /\ posted[r] = <<>>) =>
      /\ parsed[r] = <<Lex("{"), Lex("}")>>
      /\ MissingCodeOutcome(out[r])
      /\ runs[r] = 0 /\ contexts[r] = 0
      /\ trace[r] = <<"listen", "parse", "writeHead", "end">>

\* C27 witness: a POST /run without body was answered.
C27_Witness ==
  \E r \in Reqs :
    /\ method[r] = "POST" /\ url[r] = "/run" /\ posted[r] = <<>> /\ ended[r]
    /\ MissingCodeOutcome(out[r])


\* The handler state of r had the server been started with the other
\* setting of the verbosity switch.
Flipped(r) == [H(r) EXCEPT !.verbose = ~verbose]

\* What a handler run leaves for the client and the request: the response
\* object, the responses sent, the log sequence and what was executed.
Visible(h) == <<h.res, h.out, h.logs, h.runs, h.contexts, h.trace, h.escaped>>

\* The lines mirroring the records of l whose level is in levels, in order.
RECURSIVE MirrorLines(_, _)
MirrorLines(l, levels) ==
  IF l = <<>> THEN <<>>
  ELSE (IF Head(l).level \in levels
          THEN <<"[" \o Head(l).level \o "]" \o Spaced(Head(l).message)>>
          ELSE <<>>) \o MirrorLines(Tail(l), levels)

\* The lines the handler itself writes with log and logError.
HandlerLines ==
  { "health check ok", "request rejected: missing code", "request ok",
    "request failed", "Request error:", "Uncaught exception:",
    "Failed to send error response:", "Unexpected server error:" }
IsMirror(line) == line \notin HandlerLines

\* C28: every handler run leaves the same response, log sequence and
\* execution under either setting of the verbosity switch; with the switch
\* on, the records captured from the snippet's console are mirrored in
\* order, error and warn to the error sink, log and info to the standard
\* sink, and with the switch off the standard sink gets nothing and the
\* error sink no mirrored record.
C28_VerboseOnlySinks ==
  [][\A r \in Reqs :
       /\ (stream[r] = "idle" /\ stream'[r] # "idle") =>
            Visible(OnRequest(Flipped(r), method'[r], url'[r])) = Visible(H(r))'
       /\ (~errored[r] /\ errored'[r]) =>
            Visible(OnError(Flipped(r), Aborted)) = Visible(H(r))'
       /\ Ends(r) =>
            /\ Visible(OnEnd(Flipped(r), body[r])) = Visible(H(r))'
            /\ ~verbose => stdout'[r] = <<>> /\ SelectSeq(stderr'[r], IsMirror) = <<>>
            /\ (verbose /\ \E src \in Sources : posted[r] = CodeBody(src)) =>
                 LET src == CHOOSE s \in Sources : posted[r] = CodeBody(s)
                     captured == IF Program(src).compiles THEN Emitted(src) ELSE <<>>
                 IN  /\ SelectSeq(stderr'[r], IsMirror)
                          = MirrorLines(captured, {"error", "warn"})
                     /\ SelectSeq(stdout'[r], IsMirror)
                          = MirrorLines(captured, {"log", "info"})]_vars

\* C28 witness: with the switch on, a snippet that warns, logs an error and
\* succeeds was answered 200 with both records, both were mirrored to the
\* error sink, and the standard sink got only the handler's line.
C28_Witness ==
  \E r \in Reqs :
    /\ verbose
    /\ posted[r] = CodeBody("console.warn('w', 1); console.error('e'); 'done'")
    /\ Len(out[r]) = 1 /\ out[r][1].status = 200 /\ Len(out[r][1].body.logs) = 2
    /\ stderr[r] = <<"[warn] w 1", "[error] e">>
    /\ stdout[r] = <<"request ok">>

====
